---- MODULE Spec2Model ----
(***************************************************************************)
(* State-machine model of automatic_circuit_design_by_RCL_component_search *)
(* (src/automatic_circuit_design_by_RCL_component_search.py): the          *)
(* configuration dictionaries, the value expander, the cartesian-product   *)
(* enumeration, the circuit evaluator, the best pass, the tolerance        *)
(* expander and the worst pass, in the order main() runs them.             *)
(*                                                                         *)
(* Numbers.  Python floats are modelled as fixed-point numbers with two    *)
(* decimal digits: the integer n stands for n / FP.  Component values are  *)
(* in their own unit (ohm, farad, henry).  Voltages, and therefore the     *)
(* errors, are measured in units of 10^9 volt, so that the literal         *)
(* 10000000000.0 of line 341 is the fixed-point number 10.00: the circuit  *)
(* equations are linear in VCC, so scaling VCC, the targets and that       *)
(* literal together changes no comparison the program makes.               *)
(*                                                                         *)
(* None is the empty tuple and a present value x is <<x>>.  A dictionary   *)
(* is the sequence of its entries in insertion order.  An identifier is    *)
(* the sequence of its character codes, so that sort() and startswith()    *)
(* are what they are in Python.                                            *)
(***************************************************************************)
EXTENDS Integers, Sequences, FiniteSets, TLC

VARIABLES
    pc,                           \* where main() is
    error,                        \* the exception that ended the run, or None
    dic_in_fix_param,             \* ordered dictionary of fixed parameters
    dic_resistors,                \* ordered dictionaries of components
    dic_capacitors,
    dic_inductors,
    dic_target_calc_values,       \* ordered dictionary of target quantities
    g_best_prev_error,
    g_worst_prev_error,
    list_components_ids,          \* locals of the running pass
    list_components_list_values,
    max_number_evaluations,
    five_perc,
    resp,                         \* last answer to the prompt, or None
    index,
    iter_combinations,            \* position of the next tuple, or None
    calls                         \* how often the search has been called

vars == << pc, error, dic_in_fix_param, dic_resistors, dic_capacitors,
           dic_inductors, dic_target_calc_values, g_best_prev_error,
           g_worst_prev_error, list_components_ids,
           list_components_list_values, max_number_evaluations, five_perc,
           resp, index, iter_combinations, calls >>

----------------------------------------------------------------------------
(* Bounds of the model. *)

\* An enumeration is followed for at most this many combinations.
MaxCombinations == 1100

\* The caller of SpecTwice calls the search at most this many times.
MaxCalls == 2

----------------------------------------------------------------------------
(* None, and fixed-point arithmetic. *)

None == << >>

Some(x) == << x >>

\* Two decimal digits.
FP == 10 * 10

FMul(a, b) == (a * b) \div FP

FDiv(a, b) == (a * FP) \div b

Fabs(a) == IF a < 0 THEN -a ELSE a

RECURSIVE SqrtDigits(_, _, _)
\* The largest r + k * bit (k >= 0, by halving bits) whose square is <= n.
SqrtDigits(n, r, bit) ==
    IF bit = 0 THEN r
    ELSE IF (r + bit) * (r + bit) <= n
         THEN SqrtDigits(n, r + bit, bit \div 2)
         ELSE SqrtDigits(n, r, bit \div 2)

\* math.sqrt on fixed-point numbers: sqrt(a / FP) = sqrt(a * FP) / FP.
FSqrt(a) == SqrtDigits(a * FP, 0, 32768)

----------------------------------------------------------------------------
(* Identifiers (lines 123-205) as character codes: "R" 82, "C" 67, "L" 76. *)

R1 == << 82, 49 >>
R2 == << 82, 50 >>
R3 == << 82, 51 >>
C1 == << 67, 49 >>
C2 == << 67, 50 >>
L1 == << 76, 49 >>

V_low_threshold == "V_low_threshold"
V_high_threshold == "V_high_threshold"

\* Python's < on strings.
StrLess(a, b) ==
    \E k \in 1..(Len(a) + 1) :
        /\ \A j \in 1..(k - 1) : j <= Len(b) /\ a[j] = b[j]
        /\ \/ k = Len(a) + 1 /\ Len(b) >= k
           \/ k <= Len(a) /\ k <= Len(b) /\ a[k] < b[k]

startswith(id, code) == Len(id) >= 1 /\ id[1] = code

----------------------------------------------------------------------------
(* Program constants. *)

E24_resistor_values ==
    << 100, 110, 120, 130, 150, 160, 180, 200, 220, 240, 270, 300,
       330, 360, 390, 430, 470, 510, 560, 620, 680, 750, 820, 910 >>

E12_capacitor_values ==
    << 100, 120, 150, 180, 220, 270, 330, 390, 470, 560, 680, 820 >>

\* 10000000000.0 volt, in units of 10^9 volt with two decimals.
g_best_prev_error_init == 1000

g_worst_prev_error_init == 0

\* The combination count above which the best pass asks before it starts.
safe_max_number_evaluations == 25000000

\* The combination index at which the run time is estimated.
estimate_index == 1000

\* Progress milestones are printed for indices above this one.
progress_index == 1001

----------------------------------------------------------------------------
(* Dictionaries. *)

\* One entry of dic_in_fix_param.
InFixP(name, value) == [ name |-> name, value |-> value ]

\* One entry of dic_resistors, dic_capacitors or dic_inductors.
Comp(name, value, value_set, value_scale, tolerance) ==
    [ name |-> name, value |-> value, value_set |-> value_set,
      value_scale |-> value_scale, tolerance |-> tolerance,
      curr_value |-> None, best_value |-> None, worst_value |-> None,
      expanded_values |-> None, expanded_tolerance |-> None ]

\* One entry of dic_target_calc_values.
TCalcValues(name, target_value) ==
    [ name |-> name, target_value |-> target_value,
      calc_value |-> None, best_value |-> None, worst_value |-> None ]

\* dict.get(id): the entry whose key is id, or None.
DicGet(dic, id) ==
    IF \E i \in 1..Len(dic) : dic[i].name = id
    THEN Some(dic[CHOOSE i \in 1..Len(dic) : dic[i].name = id])
    ELSE None

\* dic[id][field] = val.
DicSet(dic, id, field, val) ==
    [ i \in 1..Len(dic) |->
        IF dic[i].name = id THEN [ dic[i] EXCEPT ![field] = val ] ELSE dic[i] ]

\* process_inner_dic: the field's value, which must not be None.
process_inner_dic(inner_dic, field) ==
    IF inner_dic # None
    THEN IF inner_dic[1][field] # None
         THEN [ err |-> None, val |-> inner_dic[1][field][1] ]
         ELSE [ err |-> Some("ValueError"), val |-> 0 ]
    ELSE [ err |-> Some("ValueError"), val |-> 0 ]

get_dic_in_fix_param(fix_param, id, field) ==
    process_inner_dic(DicGet(fix_param, id), field)

get_dic_resistors(dics, id, field) == process_inner_dic(DicGet(dics.R, id), field)

get_dic_capacitors(dics, id, field) == process_inner_dic(DicGet(dics.C, id), field)

get_dic_inductors(dics, id, field) == process_inner_dic(DicGet(dics.L, id), field)

get_dic_target_calc_values(targets, id, field) ==
    process_inner_dic(DicGet(targets, id), field)

\* Write a value in the dictionary of the target values (an identifier
\* that is no key raises ValueError).
set_dic_target_calc_values(targets, id, field, value) ==
    IF DicGet(targets, id) # None
    THEN [ err |-> None, dic |-> DicSet(targets, id, field, Some(value)) ]
    ELSE [ err |-> Some("ValueError"), dic |-> targets ]

----------------------------------------------------------------------------
(* Value expander (lines 399-416). *)

\* The inner loop of expand_component: val * scale appended to values_list
\* for every val of the series, in order.
ExpandSeries(values_list, scale, standard_scale_values) ==
    values_list \o [ j \in 1..Len(standard_scale_values) |->
                       FMul(standard_scale_values[j], scale) ]

RECURSIVE ExpandScales(_, _, _, _)
\* The outer loop of expand_component, over the scale factors.
ExpandScales(values_list, values_scale, standard_scale_values, i) ==
    IF i > Len(values_scale) THEN values_list
    ELSE ExpandScales(ExpandSeries(values_list, values_scale[i],
                                   standard_scale_values),
                      values_scale, standard_scale_values, i + 1)

\* Iterating over None raises TypeError: a missing scale list, or a scale
\* list with at least one factor and no standard series.
ExpandRaises(component, standard_scale_values) ==
    /\ component.value = None
    /\ component.value_set = None
    /\ \/ component.value_scale = None
       \/ /\ Len(component.value_scale[1]) > 0
          /\ standard_scale_values = None

\* Lines 402-415 with the set looked at before the value.
ExpandValuesList_SetFirst(component, standard_scale_values) ==
    IF component.value_set = None
    THEN IF component.value = None
         THEN ExpandScales(<< >>, component.value_scale[1],
                           IF standard_scale_values = None THEN << >>
                           ELSE standard_scale_values[1], 1)
         ELSE << component.value[1] >>
    ELSE component.value_set[1]

\* The values_list of one component.
ExpandValuesList(component, standard_scale_values) ==
    IF component.value = None
    THEN IF component.value_set = None
         THEN ExpandScales(<< >>, component.value_scale[1],
                           IF standard_scale_values = None THEN << >>
                           ELSE standard_scale_values[1], 1)
         ELSE component.value_set[1]
    ELSE << component.value[1] >>

RECURSIVE expand_component_from_SkipsBad(_, _, _)
\* Lines 400-416 with a component that cannot be expanded passed over.
expand_component_from_SkipsBad(component_dic, standard_scale_values, i) ==
    IF i > Len(component_dic) THEN [ dic |-> component_dic, err |-> None ]
    ELSE IF ExpandRaises(component_dic[i], standard_scale_values)
         THEN expand_component_from_SkipsBad(component_dic, standard_scale_values, i + 1)
         ELSE expand_component_from_SkipsBad(
                  [ component_dic EXCEPT ![i].expanded_values =
                        Some(ExpandValuesList(component_dic[i], standard_scale_values)) ],
                  standard_scale_values, i + 1)

RECURSIVE expand_component_from(_, _, _)
\* expand_component from entry i on: the dictionary and the error, if any.
expand_component_from(component_dic, standard_scale_values, i) ==
    IF i > Len(component_dic) THEN [ dic |-> component_dic, err |-> None ]
    ELSE IF ExpandRaises(component_dic[i], standard_scale_values)
         THEN [ dic |-> component_dic, err |-> Some("TypeError") ]
         ELSE expand_component_from(
                  [ component_dic EXCEPT ![i].expanded_values =
                        Some(ExpandValuesList(component_dic[i], standard_scale_values)) ],
                  standard_scale_values, i + 1)

expand_component(component_dic, standard_scale_values) ==
    expand_component_from(component_dic, standard_scale_values, 1)

----------------------------------------------------------------------------
(* Combination enumerator (lines 419-449 and itertools.product). *)

RECURSIVE SortedInsert(_, _)
\* pair put into a list sorted by name, before the first greater name.
SortedInsert(sorted, pair) ==
    IF sorted = << >> THEN << pair >>
    ELSE IF StrLess(pair[1], sorted[1][1]) THEN << pair >> \o sorted
         ELSE << sorted[1] >> \o SortedInsert(Tail(sorted), pair)

RECURSIVE SortPairs(_)
\* list.sort() of (name, values) pairs: names are unique keys.
SortPairs(list_component) ==
    IF list_component = << >> THEN << >>
    ELSE SortedInsert(SortPairs(Tail(list_component)), list_component[1])

make_list_component_expanded_values(dic_component, field) ==
    SortPairs([ i \in 1..Len(dic_component) |->
                  << dic_component[i].name, dic_component[i][field] >> ])

make_two_combined_list_of_components(list_resistors, list_capacitors, list_inductors) ==
    LET all == list_resistors \o list_capacitors \o list_inductors
    IN  << [ i \in 1..Len(all) |-> all[i][1] ],
           [ i \in 1..Len(all) |-> all[i][2] ] >>

\* len() of None raises TypeError.
ListsRaise(list_values) == \E i \in 1..Len(list_values) : list_values[i] = None

RECURSIVE CountEvaluations_Sum(_, _, _)
\* Lines 464-467 with + for *.
CountEvaluations_Sum(list_values, i, acc) ==
    IF i > Len(list_values) THEN acc
    ELSE CountEvaluations_Sum(list_values, i + 1, acc + Len(list_values[i][1]))

RECURSIVE CountEvaluations(_, _, _)
\* The loop of lines 464-467.
CountEvaluations(list_values, i, acc) ==
    IF i > Len(list_values) THEN acc
    ELSE CountEvaluations(list_values, i + 1, acc * Len(list_values[i][1]))

\* itertools.product(*pools): the position of the first tuple, or None.
ProductFirst(pools) ==
    IF \E i \in 1..Len(pools) : Len(pools[i][1]) = 0 THEN None
    ELSE Some([ i \in 1..Len(pools) |-> 1 ])

\* The position after pos: the rightmost pool that can advances, those right
\* of it restart; None when no pool can advance.
ProductNext(pools, pos) ==
    LET movable == { i \in 1..Len(pools) : pos[i] < Len(pools[i][1]) }
    IN  IF movable = {} THEN None
        ELSE LET m == CHOOSE i \in movable : \A j \in movable : j <= i
             IN  Some([ i \in 1..Len(pools) |->
                          IF i < m THEN pos[i]
                          ELSE IF i = m THEN pos[i] + 1 ELSE 1 ])

\* The tuple at position pos.
ProductTuple(pools, pos) == [ i \in 1..Len(pools) |-> pools[i][1][pos[i]] ]

\* An identifier that starts with none of R, C, L raises ValueError.
MapRaises(ids) ==
    \E i \in 1..Len(ids) :
        ~ (startswith(ids[i], 82) \/ startswith(ids[i], 67) \/ startswith(ids[i], 76))

RECURSIVE MapFrom(_, _, _, _, _)
\* The loop of map_ids_and_component_combination_vals__set_fields from the
\* i-th identifier on, over dics = [R, C, L]: an identifier that starts with
\* none of R, C, L raises ValueError.
MapFrom(dics, ids, combination, field, i) ==
    IF i > Len(ids) \/ i > Len(combination) THEN [ dics |-> dics, err |-> None ]
    ELSE IF startswith(ids[i], 82)
    THEN MapFrom([ dics EXCEPT !.R = DicSet(dics.R, ids[i], field, Some(combination[i])) ],
                 ids, combination, field, i + 1)
    ELSE IF startswith(ids[i], 67)
    THEN MapFrom([ dics EXCEPT !.C = DicSet(dics.C, ids[i], field, Some(combination[i])) ],
                 ids, combination, field, i + 1)
    ELSE IF startswith(ids[i], 76)
    THEN MapFrom([ dics EXCEPT !.L = DicSet(dics.L, ids[i], field, Some(combination[i])) ],
                 ids, combination, field, i + 1)
    ELSE [ dics |-> dics, err |-> Some("ValueError") ]

map_ids_and_component_combination_vals__set_fields(dics, ids, combination, field) ==
    MapFrom(dics, ids, combination, field, 1)

----------------------------------------------------------------------------
(* Circuit evaluator (lines 238-270). *)

\* Lines 257-266; a float division by zero raises ZeroDivisionError.
CircuitEquations(VCC, R1v, R2v, R3v) ==
    IF R2v + R3v = 0 THEN [ err |-> Some("ZeroDivisionError"), low |-> 0, high |-> 0 ]
    ELSE LET R_total_low == FDiv(FMul(R2v, R3v), R2v + R3v)
         IN  IF R1v + R_total_low = 0
             THEN [ err |-> Some("ZeroDivisionError"), low |-> 0, high |-> 0 ]
             ELSE LET V_low == FDiv(FMul(VCC, R_total_low), R1v + R_total_low)
                  IN  IF R1v + R3v = 0
                      THEN [ err |-> Some("ZeroDivisionError"), low |-> 0, high |-> 0 ]
                      ELSE LET R_total_high == FDiv(FMul(R1v, R3v), R1v + R3v)
                           IN  IF R2v + R_total_high = 0
                               THEN [ err |-> Some("ZeroDivisionError"),
                                      low |-> 0, high |-> 0 ]
                               ELSE [ err |-> None, low |-> V_low,
                                      high |-> FDiv(FMul(VCC, R2v), R2v + R_total_high) ]

\* The first error among the reads of lines 242-248, or None.
FirstErr(reads) ==
    IF \E i \in 1..Len(reads) : reads[i].err # None
    THEN reads[CHOOSE i \in 1..Len(reads) :
                 reads[i].err # None /\ \A j \in 1..(i - 1) : reads[j].err = None].err
    ELSE None

\* Lines 238-270 with the division by zero caught and the evaluation left.
calc_evaluation_of_circuit_equations_Suppressed(fix_param, dics, targets) ==
    [ err |-> FirstErr(<< get_dic_in_fix_param(fix_param, "VCC", "value"),
                          get_dic_resistors(dics, R1, "curr_value"),
                          get_dic_resistors(dics, R2, "curr_value"),
                          get_dic_resistors(dics, R3, "curr_value") >>),
      targets |->
          LET v == CircuitEquations(
                       get_dic_in_fix_param(fix_param, "VCC", "value").val,
                       get_dic_resistors(dics, R1, "curr_value").val,
                       get_dic_resistors(dics, R2, "curr_value").val,
                       get_dic_resistors(dics, R3, "curr_value").val)
          IN  DicSet(DicSet(targets, V_low_threshold, "calc_value", Some(v.low)),
                     V_high_threshold, "calc_value", Some(v.high)) ]

\* The target dictionary after one evaluation, and the error, if any.
calc_evaluation_of_circuit_equations(fix_param, dics, targets) ==
    LET VCCr == get_dic_in_fix_param(fix_param, "VCC", "value")
        R1r == get_dic_resistors(dics, R1, "curr_value")
        R2r == get_dic_resistors(dics, R2, "curr_value")
        R3r == get_dic_resistors(dics, R3, "curr_value")
        C1r == get_dic_capacitors(dics, C1, "curr_value")
        C2r == get_dic_capacitors(dics, C2, "curr_value")
        L1r == get_dic_inductors(dics, L1, "curr_value")
        rerr == FirstErr(<< VCCr, R1r, R2r, R3r, C1r, C2r, L1r >>)
    IN  IF rerr # None THEN [ err |-> rerr, targets |-> targets ]
        ELSE LET v == CircuitEquations(VCCr.val, R1r.val, R2r.val, R3r.val)
                 t1 == set_dic_target_calc_values(targets, V_low_threshold,
                                                  "calc_value", v.low)
                 t2 == set_dic_target_calc_values(t1.dic, V_high_threshold,
                                                  "calc_value", v.high)
             IN  IF v.err # None THEN [ err |-> v.err, targets |-> targets ]
                 ELSE IF t1.err # None THEN [ err |-> t1.err, targets |-> t1.dic ]
                 ELSE [ err |-> t2.err, targets |-> t2.dic ]

----------------------------------------------------------------------------
(* Best/worst tracker (lines 278-320). *)

\* Line 286-287: the Euclidean distance of the obtained values to the targets.
DistanceErrorBest(low_target, high_target, low_obtained, high_obtained) ==
    FSqrt(FMul(low_target - low_obtained, low_target - low_obtained)
          + FMul(high_target - high_obtained, high_target - high_obtained))

\* Line 289 with <= for <.
IsBetter_OrEqual(current_error, best_prev_error) == current_error <= best_prev_error

\* Line 289 with > for <.
IsBetter_Greater(current_error, best_prev_error) == current_error > best_prev_error

\* Line 289.
IsBetter(current_error, best_prev_error) == current_error < best_prev_error

calc_distance_error_best(best_prev_error, targets) ==
    LET lt == get_dic_target_calc_values(targets, V_low_threshold, "target_value")
        ht == get_dic_target_calc_values(targets, V_high_threshold, "target_value")
        lo == get_dic_target_calc_values(targets, V_low_threshold, "calc_value")
        ho == get_dic_target_calc_values(targets, V_high_threshold, "calc_value")
        rerr == FirstErr(<< lt, ht, lo, ho >>)
        current_error == DistanceErrorBest(lt.val, ht.val, lo.val, ho.val)
    IN  IF rerr # None
        THEN [ err |-> rerr, better |-> FALSE,
               best_prev_error |-> best_prev_error, targets |-> targets ]
        ELSE IF IsBetter(current_error, best_prev_error)
        THEN [ err |-> None, better |-> TRUE, best_prev_error |-> current_error,
               targets |-> DicSet(DicSet(targets, V_low_threshold, "best_value",
                                         Some(lo.val)),
                                  V_high_threshold, "best_value", Some(ho.val)) ]
        ELSE [ err |-> None, better |-> FALSE,
               best_prev_error |-> best_prev_error, targets |-> targets ]

\* Line 312-313: the summed absolute distance.
AbsoluteDistanceErrorWorst(low_target, high_target, low_obtained, high_obtained) ==
    Fabs(low_target - low_obtained) + Fabs(high_target - high_obtained)

\* Line 314 with the comparison of line 289.
IsEvenWorst_Less(current_error, worst_prev_error) == current_error < worst_prev_error

\* Line 314.
IsEvenWorst(current_error, worst_prev_error) == current_error > worst_prev_error

calc_absolute_distance_error_worst(worst_prev_error, targets) ==
    LET lt == get_dic_target_calc_values(targets, V_low_threshold, "target_value")
        ht == get_dic_target_calc_values(targets, V_high_threshold, "target_value")
        lo == get_dic_target_calc_values(targets, V_low_threshold, "calc_value")
        ho == get_dic_target_calc_values(targets, V_high_threshold, "calc_value")
        rerr == FirstErr(<< lt, ht, lo, ho >>)
        current_error == AbsoluteDistanceErrorWorst(lt.val, ht.val, lo.val, ho.val)
    IN  IF rerr # None
        THEN [ err |-> rerr, worse |-> FALSE,
               worst_prev_error |-> worst_prev_error, targets |-> targets ]
        ELSE IF IsEvenWorst(current_error, worst_prev_error)
        THEN [ err |-> None, worse |-> TRUE, worst_prev_error |-> current_error,
               targets |-> DicSet(DicSet(targets, V_low_threshold, "worst_value",
                                         Some(lo.val)),
                                  V_high_threshold, "worst_value", Some(ho.val)) ]
        ELSE [ err |-> None, worse |-> FALSE,
               worst_prev_error |-> worst_prev_error, targets |-> targets ]

----------------------------------------------------------------------------
(* Tolerance expander (lines 525-538). *)

\* The float 0.01.
Hundredth == FP \div (10 * 10)

\* Line 527 without the factor 0.01.
expand_each_component_tolerance_NoHundredth(comp_val, comp_tolerance_perc) ==
    LET delta == FMul(comp_val, comp_tolerance_perc)
    IN  << comp_val - delta, comp_val, comp_val + delta >>

expand_each_component_tolerance(comp_val, comp_tolerance_perc) ==
    LET delta == FMul(FMul(comp_val, comp_tolerance_perc), Hundredth)
    IN  << comp_val - delta, comp_val, comp_val + delta >>

RECURSIVE expand_tolerance_from_NullAsZero(_, _)
\* Lines 534-538 with a null best value taken as 0.
expand_tolerance_from_NullAsZero(dic_component, i) ==
    IF i > Len(dic_component) THEN [ dic |-> dic_component, err |-> None ]
    ELSE expand_tolerance_from_NullAsZero(
             [ dic_component EXCEPT ![i].expanded_tolerance =
                   Some(expand_each_component_tolerance(
                            IF dic_component[i].best_value = None THEN 0
                            ELSE dic_component[i].best_value[1],
                            dic_component[i].tolerance)) ],
             i + 1)

RECURSIVE expand_tolerance_from(_, _)
\* expand_component_tolerance_value_list from entry i on: None * float
\* raises TypeError.
expand_tolerance_from(dic_component, i) ==
    IF i > Len(dic_component) THEN [ dic |-> dic_component, err |-> None ]
    ELSE IF dic_component[i].best_value = None
         THEN [ dic |-> dic_component, err |-> Some("TypeError") ]
         ELSE expand_tolerance_from(
                  [ dic_component EXCEPT ![i].expanded_tolerance =
                        Some(expand_each_component_tolerance(
                                 dic_component[i].best_value[1],
                                 dic_component[i].tolerance)) ],
                  i + 1)

expand_component_tolerance_value_list(dic_component) ==
    expand_tolerance_from(dic_component, 1)

----------------------------------------------------------------------------
(* Configurations: the dictionaries of lines 113-205 as the inputs of a run. *)

\* The whole number n.
F(n) == n * FP

\* Every resistor, C2 given by explicit sets; C1 and L1 fixed.
ConfigSets ==
    [ R |-> << Comp(R1, None, Some(<< F(10), F(91) >>), None, F(1)),
               Comp(R2, None, Some(<< F(10), F(1) >>), None, F(10)),
               Comp(R3, None, Some(<< F(1), F(91) >>), None, F(10)) >>,
      C |-> << Comp(C1, Some(F(1000)), None, None, F(1)),
               Comp(C2, None, Some(<< F(1), F(10) >>), None, F(1)) >>,
      L |-> << Comp(L1, Some(F(1)), None, None, F(20)) >> ]

\* The same entries, inserted in another order.
ConfigReordered ==
    [ R |-> << ConfigSets.R[3], ConfigSets.R[1], ConfigSets.R[2] >>,
      C |-> << ConfigSets.C[2], ConfigSets.C[1] >>,
      L |-> ConfigSets.L ]

\* A scale list (R1, C1), a value beside a set and a scale list (R2), a set
\* beside a scale list (R3).
ConfigScale ==
    [ R |-> << Comp(R1, None, None, Some(<< F(10) >>), F(1)),
               Comp(R2, Some(F(10)), Some(<< F(20), F(30) >>), Some(<< F(1) >>), F(1)),
               Comp(R3, None, Some(<< F(10), F(20) >>), Some(<< F(1) >>), F(10)) >>,
      C |-> << Comp(C1, None, None, Some(<< F(1) >>), F(10)),
               Comp(C2, Some(F(1)), None, None, F(1)) >>,
      L |-> << Comp(L1, Some(F(1)), None, None, F(20)) >> ]

\* Two scale factors for R1, everything else fixed, R2 with a set and a
\* scale list next to its value.
ConfigTwoScales ==
    [ R |-> << Comp(R1, None, None, Some(<< F(1), F(10) >>), F(10)),
               Comp(R2, Some(F(10)), Some(<< F(20), F(30) >>), Some(<< F(1) >>), F(10)),
               Comp(R3, Some(F(20)), None, None, F(10)) >>,
      C |-> << Comp(C1, Some(F(1)), None, None, F(10)),
               Comp(C2, Some(F(1)), None, None, F(1)) >>,
      L |-> << Comp(L1, Some(F(1)), None, None, F(20)) >> ]

\* The dictionaries of the source (lines 123-187), resistances in units of
\* 100 ohm: three resistors over four decades of E24, C1 and L1 fixed, C2 a
\* set of two: 96 * 96 * 96 * 1 * 2 * 1 combinations.
ConfigSource ==
    [ R |-> << Comp(R1, None, None, Some(<< F(1), F(10), F(100), F(1000) >>), F(1)),
               Comp(R2, None, None, Some(<< F(1), F(10), F(100), F(1000) >>), F(1)),
               Comp(R3, None, None, Some(<< F(1), F(10), F(100), F(1000) >>), F(1)) >>,
      C |-> << Comp(C1, Some(F(1)), None, None, F(10)),
               Comp(C2, None, Some(<< F(1), F(10) >>), None, F(1)) >>,
      L |-> << Comp(L1, Some(F(1)), None, None, F(20)) >> ]

\* The same with the two-decade scale list for C1 that line 159 suggests:
\* 96 * 96 * 96 * 24 * 2 * 1 combinations, more than 25,000,000.
ConfigHuge ==
    [ R |-> ConfigSource.R,
      C |-> << Comp(C1, None, None, Some(<< F(1), F(10) >>), F(10)),
               Comp(C2, None, Some(<< F(1), F(10) >>), None, F(1)) >>,
      L |-> ConfigSource.L ]

\* An empty explicit set: no combination at all.
ConfigEmpty ==
    [ R |-> ConfigSets.R,
      C |-> << Comp(C1, Some(F(1000)), None, None, F(1)),
               Comp(C2, None, Some(<< >>), None, F(1)) >>,
      L |-> ConfigSets.L ]

\* Every component fixed: one combination.
ConfigFixed ==
    [ R |-> << Comp(R1, Some(F(10)), None, None, F(1)),
               Comp(R2, Some(F(10)), None, None, F(1)),
               Comp(R3, Some(F(10)), None, None, F(1)) >>,
      C |-> << Comp(C1, Some(F(1000)), None, None, F(1)),
               Comp(C2, Some(F(1)), None, None, F(1)) >>,
      L |-> << Comp(L1, Some(F(1)), None, None, F(20)) >> ]

\* C2 with no value, no set and no scale list.
ConfigNoSource ==
    [ R |-> ConfigFixed.R,
      C |-> << Comp(C1, Some(F(1000)), None, None, F(1)),
               Comp(C2, None, None, None, F(1)) >>,
      L |-> ConfigFixed.L ]

\* L1 with a scale list only: line 605 passes no standard series.
ConfigInductorScale ==
    [ R |-> ConfigFixed.R,
      C |-> ConfigFixed.C,
      L |-> << Comp(L1, None, None, Some(<< F(1), F(10) >>), F(20)) >> ]

\* L1 with a scale list of no factor.
ConfigInductorNoFactor ==
    [ R |-> ConfigFixed.R,
      C |-> ConfigFixed.C,
      L |-> << Comp(L1, None, None, Some(<< >>), F(20)) >> ]

\* R2 and R3 may be 0: the fifth pair of them, (0, 0), divides by zero in
\* line 261, with four more pairs behind it.
ConfigZero ==
    [ R |-> << Comp(R1, Some(F(10)), None, None, F(1)),
               Comp(R2, None, Some(<< F(10), 0, F(20) >>), None, F(1)),
               Comp(R3, None, Some(<< F(10), 0, F(20) >>), None, F(1)) >>,
      C |-> ConfigFixed.C,
      L |-> ConfigFixed.L ]

\* Tolerances of 100 percent and of -100 percent: the band of R2 starts at
\* 0 and the band of R3 ends at 0.
ConfigZeroBand ==
    [ R |-> << Comp(R1, Some(F(10)), None, None, F(1)),
               Comp(R2, Some(F(10)), None, None, F(100)),
               Comp(R3, Some(F(10)), None, None, 0 - F(100)) >>,
      C |-> ConfigFixed.C,
      L |-> ConfigFixed.L ]

\* 24 * 6 * 7 = 1008 combinations: a few more than the 1002 after which the
\* progress marks of lines 502-508 begin.
ConfigMilestone ==
    [ R |-> << Comp(R1, None, None, Some(<< F(10) >>), F(1)),
               Comp(R2, None, Some(<< F(10), F(20), F(30), F(40), F(50), F(60) >>),
                    None, F(1)),
               Comp(R3, None, Some(<< F(10), F(20), F(30), F(40), F(50), F(60),
                                      F(70) >>), None, F(1)) >>,
      C |-> ConfigFixed.C,
      L |-> ConfigFixed.L ]

Configs ==
    { ConfigMilestone, ConfigZero, ConfigZeroBand, ConfigSets, ConfigReordered, ConfigScale, ConfigTwoScales, ConfigSource,
      ConfigHuge, ConfigEmpty, ConfigFixed, ConfigNoSource, ConfigInductorScale,
      ConfigInductorNoFactor }

\* Fixed parameters and targets: VCC, V_low_threshold, V_high_threshold.
\* The first is the source's 5.0 / 0.555 / 0.575 to two decimals; the second
\* has a larger supply; the last two fail the consistency test.
FixTargets ==
    { [ fix |-> << InFixP("VCC", Some(ft.VCC)), InFixP("GND", Some(0)) >>,
        targets |-> << TCalcValues(V_low_threshold, Some(ft.low)),
                       TCalcValues(V_high_threshold, Some(ft.high)) >> ] :
        ft \in { [ VCC |-> 500, low |-> 55, high |-> 57 ],
                 [ VCC |-> 2000, low |-> 55, high |-> 57 ],
                 [ VCC |-> 0, low |-> 55, high |-> 57 ],
                 [ VCC |-> 500, low |-> 57, high |-> 55 ] } }
    \cup
    \* VCC without a value, no VCC at all, a target without a value, no
    \* V_high_threshold at all.
    { [ fix |-> << InFixP("VCC", None), InFixP("GND", Some(0)) >>,
        targets |-> << TCalcValues(V_low_threshold, Some(55)),
                       TCalcValues(V_high_threshold, Some(57)) >> ],
      [ fix |-> << InFixP("GND", Some(0)) >>,
        targets |-> << TCalcValues(V_low_threshold, Some(55)),
                       TCalcValues(V_high_threshold, Some(57)) >> ],
      [ fix |-> << InFixP("VCC", Some(500)), InFixP("GND", Some(0)) >>,
        targets |-> << TCalcValues(V_low_threshold, None),
                       TCalcValues(V_high_threshold, Some(57)) >> ],
      [ fix |-> << InFixP("VCC", Some(500)), InFixP("GND", Some(0)) >>,
        targets |-> << TCalcValues(V_low_threshold, Some(55)) >> ] }

\* Resistors without tolerance, every component fixed.
ConfigIdeal ==
    [ R |-> << Comp(R1, Some(F(10)), None, None, 0),
               Comp(R2, Some(F(10)), None, None, 0),
               Comp(R3, Some(F(10)), None, None, 0) >>,
      C |-> ConfigFixed.C,
      L |-> ConfigFixed.L ]

\* The targets that the resistors of ConfigIdeal meet exactly at VCC 5.00.
ExactTargets ==
    [ fix |-> << InFixP("VCC", Some(500)), InFixP("GND", Some(0)) >>,
      targets |-> << TCalcValues(V_low_threshold,
                                 Some(CircuitEquations(500, F(10), F(10), F(10)).low)),
                     TCalcValues(V_high_threshold,
                                 Some(CircuitEquations(500, F(10), F(10), F(10)).high)) >> ]

\* The inputs of a run: the dictionaries and the fixed parameters and
\* targets.
Inputs == (Configs \X FixTargets) \cup { << ConfigIdeal, ExactTargets >> }

\* The answers to the prompt of line 477.
Responses == { "y", "Y", "n", "N", "x" }

----------------------------------------------------------------------------
(* The state after the module is loaded. *)

Loaded(config, ft) ==
    /\ error = None
    /\ dic_in_fix_param = ft.fix
    /\ dic_resistors = config.R
    /\ dic_capacitors = config.C
    /\ dic_inductors = config.L
    /\ dic_target_calc_values = ft.targets
    /\ g_best_prev_error = g_best_prev_error_init
    /\ g_worst_prev_error = g_worst_prev_error_init
    /\ list_components_ids = << >>
    /\ list_components_list_values = << >>
    /\ max_number_evaluations = 0
    /\ five_perc = 0
    /\ resp = None
    /\ index = 0
    /\ iter_combinations = None
    /\ calls = 0

Init ==
    /\ pc = "main"
    /\ \E input \in Inputs : Loaded(input[1], input[2])

Dics == [ R |-> dic_resistors, C |-> dic_capacitors, L |-> dic_inductors ]

Raise(err) == pc' = "error" /\ error' = err

----------------------------------------------------------------------------
(* main(), lines 596-605. *)

\* consistency_testing_of_fixed_parameters, lines 212-231.
consistency_testing_of_fixed_parameters(fix_param, targets) ==
    LET VCC == get_dic_in_fix_param(fix_param, "VCC", "value")
        V_low_threshold_target ==
            get_dic_target_calc_values(targets, V_low_threshold, "target_value")
        V_high_threshold_target ==
            get_dic_target_calc_values(targets, V_high_threshold, "target_value")
        err == FirstErr(<< VCC, V_low_threshold_target, V_high_threshold_target >>)
    IN  [ err |-> err,
          passed_tests |->
              /\ err = None
              /\ 0 < VCC.val
              /\ V_low_threshold_target.val < V_high_threshold_target.val
              /\ 0 <= V_low_threshold_target.val
              /\ V_low_threshold_target.val <= VCC.val
              /\ 0 <= V_high_threshold_target.val
              /\ V_high_threshold_target.val <= VCC.val ]

\* Lines 585-592: formatting None with %f raises TypeError.
SpecificationRaises(fix_param, targets) ==
    \/ \E i \in 1..Len(fix_param) : fix_param[i].value = None
    \/ \E i \in 1..Len(targets) : targets[i].target_value = None

\* Lines 583-598: the specification is printed and tested; main returns
\* when a test fails.
ConsistencyTesting ==
    /\ pc = "main"
    /\ LET t == consistency_testing_of_fixed_parameters(dic_in_fix_param,
                                                        dic_target_calc_values)
       IN  IF SpecificationRaises(dic_in_fix_param, dic_target_calc_values)
           THEN Raise(Some("TypeError"))
           ELSE IF t.err # None THEN Raise(t.err)
           ELSE /\ pc' = IF t.passed_tests THEN "expand_resistors" ELSE "returned"
                /\ error' = error
    /\ UNCHANGED calls
    /\ UNCHANGED << dic_in_fix_param, dic_resistors, dic_capacitors,
                    dic_inductors, dic_target_calc_values, g_best_prev_error,
                    g_worst_prev_error, list_components_ids,
                    list_components_list_values, max_number_evaluations,
                    five_perc, resp, index, iter_combinations >>


ExpandResistors ==
    /\ pc = "expand_resistors"
    /\ LET r == expand_component(dic_resistors, Some(E24_resistor_values))
       IN  /\ dic_resistors' = r.dic
           /\ IF r.err # None THEN Raise(r.err)
              ELSE pc' = "expand_capacitors" /\ error' = error
    /\ UNCHANGED calls
    /\ UNCHANGED << dic_in_fix_param, dic_capacitors, dic_inductors,
                    dic_target_calc_values, g_best_prev_error,
                    g_worst_prev_error, list_components_ids,
                    list_components_list_values, max_number_evaluations,
                    five_perc, resp, index, iter_combinations >>

ExpandCapacitors ==
    /\ pc = "expand_capacitors"
    /\ LET r == expand_component(dic_capacitors, Some(E12_capacitor_values))
       IN  /\ dic_capacitors' = r.dic
           /\ IF r.err # None THEN Raise(r.err)
              ELSE pc' = "expand_inductors" /\ error' = error
    /\ UNCHANGED calls
    /\ UNCHANGED << dic_in_fix_param, dic_resistors, dic_inductors,
                    dic_target_calc_values, g_best_prev_error,
                    g_worst_prev_error, list_components_ids,
                    list_components_list_values, max_number_evaluations,
                    five_perc, resp, index, iter_combinations >>

ExpandInductors ==
    /\ pc = "expand_inductors"
    /\ LET r == expand_component(dic_inductors, None)
       IN  /\ dic_inductors' = r.dic
           /\ IF r.err # None THEN Raise(r.err)
              ELSE pc' = "full_search" /\ error' = error
    /\ UNCHANGED calls
    /\ UNCHANGED << dic_in_fix_param, dic_resistors, dic_capacitors,
                    dic_target_calc_values, g_best_prev_error,
                    g_worst_prev_error, list_components_ids,
                    list_components_list_values, max_number_evaluations,
                    five_perc, resp, index, iter_combinations >>

----------------------------------------------------------------------------
(* Best pass: full_search_of_R_C_L_component_values, lines 451-523. *)

\* Lines 453-461 (and 547-555): identifiers and value lists of all
\* components, resistors first, then capacitors, then inductors.
CombinedLists(dics, field) ==
    make_two_combined_list_of_components(
        make_list_component_expanded_values(dics.R, field),
        make_list_component_expanded_values(dics.C, field),
        make_list_component_expanded_values(dics.L, field))

\* Line 471 with one more zero in the literal.
NeedsConfirmation_TenTimes(number_evaluations) ==
    number_evaluations > 10 * safe_max_number_evaluations

\* Line 471.
NeedsConfirmation(number_evaluations) ==
    number_evaluations > safe_max_number_evaluations

\* Lines 453-471 and, when no confirmation is needed, 485-490.
SearchBegin ==
    /\ pc = "full_search"
    /\ LET res == CombinedLists(Dics, "expanded_values")
       IN  /\ list_components_ids' = res[1]
           /\ list_components_list_values' = res[2]
           /\ IF ListsRaise(res[2])
              THEN /\ Raise(Some("TypeError"))
                   /\ UNCHANGED << max_number_evaluations, five_perc, index,
                                   iter_combinations >>
              ELSE LET n == CountEvaluations(res[2], 1, 1)
                   IN  /\ max_number_evaluations' = n
                       /\ five_perc' = n \div 20
                       /\ index' = 0
                       /\ error' = error
                       /\ IF NeedsConfirmation(n)
                          THEN pc' = "prompt" /\ iter_combinations' = None
                          ELSE /\ pc' = "best_loop"
                               /\ iter_combinations' = ProductFirst(res[2])
    /\ calls' = calls + 1
    /\ UNCHANGED << dic_in_fix_param, dic_resistors, dic_capacitors,
                    dic_inductors, dic_target_calc_values, g_best_prev_error,
                    g_worst_prev_error, resp >>

\* Lines 474-482: one answer to the prompt.
Prompt ==
    /\ pc = "prompt"
    /\ \E answer \in Responses :
        /\ resp' = Some(answer)
        /\ \/ /\ answer \in { "y", "Y" }
              /\ pc' = "best_loop"
              /\ iter_combinations' = ProductFirst(list_components_list_values)
           \/ /\ answer \in { "n", "N" }
              /\ pc' = "exit"
              /\ UNCHANGED iter_combinations
           \/ /\ answer \notin { "y", "Y", "n", "N" }
              /\ UNCHANGED << pc, iter_combinations >>
    /\ UNCHANGED calls
    /\ UNCHANGED << error, dic_in_fix_param, dic_resistors, dic_capacitors,
                    dic_inductors, dic_target_calc_values, g_best_prev_error,
                    g_worst_prev_error, list_components_ids,
                    list_components_list_values, max_number_evaluations,
                    five_perc, index >>

\* Line 502 with 1 for 1001.
ProgressRaises_FromStart(idx, fiveperc) == idx > 1 /\ fiveperc = 0

\* Lines 502-508: a modulo by zero raises ZeroDivisionError.
ProgressRaises(idx, fiveperc) == idx > progress_index /\ fiveperc = 0

\* The body of the loop, lines 492-521, for one combination.
BestBody(fix_param, dics, targets, best_prev_error, ids, combination, idx, fiveperc) ==
    IF ProgressRaises(idx, fiveperc)
    THEN [ err |-> Some("ZeroDivisionError"), dics |-> dics, targets |-> targets,
           best |-> best_prev_error, index |-> idx ]
    ELSE
    LET m == map_ids_and_component_combination_vals__set_fields(
                 dics, ids, combination, "curr_value")
        e == calc_evaluation_of_circuit_equations(fix_param, m.dics, targets)
        d == calc_distance_error_best(best_prev_error, e.targets)
        b == map_ids_and_component_combination_vals__set_fields(
                 m.dics, ids, combination, "best_value")
    IN  IF m.err # None
        THEN [ err |-> m.err, dics |-> m.dics, targets |-> targets,
               best |-> best_prev_error, index |-> idx + 1 ]
        ELSE IF e.err # None
        THEN [ err |-> e.err, dics |-> m.dics, targets |-> e.targets,
               best |-> best_prev_error, index |-> idx + 1 ]
        ELSE IF d.err # None
        THEN [ err |-> d.err, dics |-> m.dics, targets |-> e.targets,
               best |-> best_prev_error, index |-> idx + 1 ]
        ELSE IF d.better
        THEN [ err |-> b.err, dics |-> b.dics, targets |-> d.targets,
               best |-> d.best_prev_error, index |-> idx + 1 ]
        ELSE [ err |-> None, dics |-> m.dics, targets |-> d.targets,
               best |-> d.best_prev_error, index |-> idx + 1 ]

\* One turn of the loop of line 491.
BestIteration ==
    /\ pc = "best_loop"
    /\ iter_combinations # None
    /\ index < MaxCombinations
    /\ LET combination == ProductTuple(list_components_list_values,
                                       iter_combinations[1])
           r == BestBody(dic_in_fix_param, Dics, dic_target_calc_values,
                         g_best_prev_error, list_components_ids, combination,
                         index, five_perc)
       IN  /\ iter_combinations' = ProductNext(list_components_list_values,
                                               iter_combinations[1])
           /\ dic_resistors' = r.dics.R
           /\ dic_capacitors' = r.dics.C
           /\ dic_inductors' = r.dics.L
           /\ dic_target_calc_values' = r.targets
           /\ g_best_prev_error' = r.best
           /\ index' = r.index
           /\ IF r.err # None THEN Raise(r.err) ELSE UNCHANGED << pc, error >>
    /\ UNCHANGED calls
    /\ UNCHANGED << dic_in_fix_param, g_worst_prev_error, list_components_ids,
                    list_components_list_values, max_number_evaluations,
                    five_perc, resp >>

\* The iterator is exhausted: line 523, and the pass returns.
BestLoopEnd ==
    /\ pc = "best_loop"
    /\ iter_combinations = None
    /\ pc' = "report_best"
    /\ UNCHANGED calls
    /\ UNCHANGED << error, dic_in_fix_param, dic_resistors, dic_capacitors,
                    dic_inductors, dic_target_calc_values, g_best_prev_error,
                    g_worst_prev_error, list_components_ids,
                    list_components_list_values, max_number_evaluations,
                    five_perc, resp, index, iter_combinations >>

\* Formatting None with %f, or subtracting None, raises TypeError.
ReportRaises(dics, targets, field) ==
    \/ \E i \in 1..Len(targets) : targets[i][field] = None
    \/ \E i \in 1..Len(dics.R) : dics.R[i][field] = None
    \/ \E i \in 1..Len(dics.C) : dics.C[i][field] = None
    \/ \E i \in 1..Len(dics.L) : dics.L[i][field] = None

\* Lines 614-638: the report of the best solution.
ReportBest ==
    /\ pc = "report_best"
    /\ IF ReportRaises(Dics, dic_target_calc_values, "best_value")
       THEN Raise(Some("TypeError"))
       ELSE pc' = "worst_analysis" /\ error' = error
    /\ UNCHANGED calls
    /\ UNCHANGED << dic_in_fix_param, dic_resistors, dic_capacitors,
                    dic_inductors, dic_target_calc_values, g_best_prev_error,
                    g_worst_prev_error, list_components_ids,
                    list_components_list_values, max_number_evaluations,
                    five_perc, resp, index, iter_combinations >>

----------------------------------------------------------------------------
(* Worst pass: worst_tolerance_component_analysis, lines 540-572. *)

\* Lines 542-544: the three dictionaries in turn; the first error ends it.
ExpandAllTolerances(dics) ==
    LET r == expand_component_tolerance_value_list(dics.R)
        c == expand_component_tolerance_value_list(dics.C)
        l == expand_component_tolerance_value_list(dics.L)
    IN  IF r.err # None THEN [ err |-> r.err, dics |-> [ dics EXCEPT !.R = r.dic ] ]
        ELSE IF c.err # None
        THEN [ err |-> c.err, dics |-> [ dics EXCEPT !.R = r.dic, !.C = c.dic ] ]
        ELSE [ err |-> l.err, dics |-> [ R |-> r.dic, C |-> c.dic, L |-> l.dic ] ]

\* Lines 542-558.
WorstBegin ==
    /\ pc = "worst_analysis"
    /\ LET x == ExpandAllTolerances(Dics)
           res == CombinedLists(x.dics, "expanded_tolerance")
       IN  /\ dic_resistors' = x.dics.R
           /\ dic_capacitors' = x.dics.C
           /\ dic_inductors' = x.dics.L
           /\ IF x.err # None
              THEN /\ Raise(x.err)
                   /\ UNCHANGED << list_components_ids,
                                   list_components_list_values, iter_combinations >>
              ELSE /\ pc' = "worst_loop"
                   /\ error' = error
                   /\ list_components_ids' = res[1]
                   /\ list_components_list_values' = res[2]
                   /\ iter_combinations' = ProductFirst(res[2])
    /\ UNCHANGED calls
    /\ UNCHANGED << dic_in_fix_param, dic_target_calc_values, g_best_prev_error,
                    g_worst_prev_error, max_number_evaluations, five_perc,
                    resp, index >>

\* Lines 562-572 with C_BEST_VALUE for C_WORST_VALUE in line 572.
WorstBody_WritesBest(fix_param, dics, targets, worst_prev_error, ids, combination) ==
    LET m == map_ids_and_component_combination_vals__set_fields(
                 dics, ids, combination, "curr_value")
        e == calc_evaluation_of_circuit_equations(fix_param, m.dics, targets)
        d == calc_absolute_distance_error_worst(worst_prev_error, e.targets)
        w == map_ids_and_component_combination_vals__set_fields(
                 m.dics, ids, combination, "best_value")
    IN  IF m.err # None
        THEN [ err |-> m.err, dics |-> m.dics, targets |-> targets,
               worst |-> worst_prev_error ]
        ELSE IF e.err # None
        THEN [ err |-> e.err, dics |-> m.dics, targets |-> e.targets,
               worst |-> worst_prev_error ]
        ELSE IF d.err # None
        THEN [ err |-> d.err, dics |-> m.dics, targets |-> e.targets,
               worst |-> worst_prev_error ]
        ELSE IF d.worse
        THEN [ err |-> w.err, dics |-> w.dics, targets |-> d.targets,
               worst |-> d.worst_prev_error ]
        ELSE [ err |-> None, dics |-> m.dics, targets |-> d.targets,
               worst |-> d.worst_prev_error ]

\* The body of the loop, lines 562-572, for one combination.
WorstBody(fix_param, dics, targets, worst_prev_error, ids, combination) ==
    LET m == map_ids_and_component_combination_vals__set_fields(
                 dics, ids, combination, "curr_value")
        e == calc_evaluation_of_circuit_equations(fix_param, m.dics, targets)
        d == calc_absolute_distance_error_worst(worst_prev_error, e.targets)
        w == map_ids_and_component_combination_vals__set_fields(
                 m.dics, ids, combination, "worst_value")
    IN  IF m.err # None
        THEN [ err |-> m.err, dics |-> m.dics, targets |-> targets,
               worst |-> worst_prev_error ]
        ELSE IF e.err # None
        THEN [ err |-> e.err, dics |-> m.dics, targets |-> e.targets,
               worst |-> worst_prev_error ]
        ELSE IF d.err # None
        THEN [ err |-> d.err, dics |-> m.dics, targets |-> e.targets,
               worst |-> worst_prev_error ]
        ELSE IF d.worse
        THEN [ err |-> w.err, dics |-> w.dics, targets |-> d.targets,
               worst |-> d.worst_prev_error ]
        ELSE [ err |-> None, dics |-> m.dics, targets |-> d.targets,
               worst |-> d.worst_prev_error ]

\* One turn of the loop of line 560.
WorstIteration ==
    /\ pc = "worst_loop"
    /\ iter_combinations # None
    /\ LET combination == ProductTuple(list_components_list_values,
                                       iter_combinations[1])
           r == WorstBody(dic_in_fix_param, Dics, dic_target_calc_values,
                          g_worst_prev_error, list_components_ids, combination)
       IN  /\ iter_combinations' = ProductNext(list_components_list_values,
                                               iter_combinations[1])
           /\ dic_resistors' = r.dics.R
           /\ dic_capacitors' = r.dics.C
           /\ dic_inductors' = r.dics.L
           /\ dic_target_calc_values' = r.targets
           /\ g_worst_prev_error' = r.worst
           /\ IF r.err # None THEN Raise(r.err) ELSE UNCHANGED << pc, error >>
    /\ UNCHANGED calls
    /\ UNCHANGED << dic_in_fix_param, g_best_prev_error, list_components_ids,
                    list_components_list_values, max_number_evaluations,
                    five_perc, resp, index >>

\* The iterator is exhausted: the pass returns.
WorstLoopEnd ==
    /\ pc = "worst_loop"
    /\ iter_combinations = None
    /\ pc' = "report_worst"
    /\ UNCHANGED calls
    /\ UNCHANGED << error, dic_in_fix_param, dic_resistors, dic_capacitors,
                    dic_inductors, dic_target_calc_values, g_best_prev_error,
                    g_worst_prev_error, list_components_ids,
                    list_components_list_values, max_number_evaluations,
                    five_perc, resp, index, iter_combinations >>

\* Lines 643-664: the report of the worst case.
ReportWorst ==
    /\ pc = "report_worst"
    /\ IF ReportRaises(Dics, dic_target_calc_values, "worst_value")
       THEN Raise(Some("TypeError"))
       ELSE pc' = "done" /\ error' = error
    /\ UNCHANGED calls
    /\ UNCHANGED << dic_in_fix_param, dic_resistors, dic_capacitors,
                    dic_inductors, dic_target_calc_values, g_best_prev_error,
                    g_worst_prev_error, list_components_ids,
                    list_components_list_values, max_number_evaluations,
                    five_perc, resp, index, iter_combinations >>

----------------------------------------------------------------------------
(* The program: main(). *)

Next ==
    \/ ConsistencyTesting
    \/ ExpandResistors
    \/ ExpandCapacitors
    \/ ExpandInductors
    \/ SearchBegin
    \/ Prompt
    \/ BestIteration
    \/ BestLoopEnd
    \/ ReportBest
    \/ WorstBegin
    \/ WorstIteration
    \/ WorstLoopEnd
    \/ ReportWorst

Spec == Init /\ [][Next]_vars

----------------------------------------------------------------------------
(* The functions of the module driven by a caller other than main(). *)

\* A caller invokes worst_tolerance_component_analysis() (line 540) once the
\* components are expanded, whether or not a search has run and without the
\* report of lines 614-638 in between.
CallWorstAnalysis ==
    /\ pc \in {"full_search", "report_best"}
    /\ pc' = "worst_analysis"
    /\ UNCHANGED calls
    /\ UNCHANGED << error, dic_in_fix_param, dic_resistors, dic_capacitors,
                    dic_inductors, dic_target_calc_values, g_best_prev_error,
                    g_worst_prev_error, list_components_ids,
                    list_components_list_values, max_number_evaluations,
                    five_perc, resp, index, iter_combinations >>

NextDirect ==
    \/ ConsistencyTesting
    \/ ExpandResistors
    \/ ExpandCapacitors
    \/ ExpandInductors
    \/ SearchBegin
    \/ Prompt
    \/ BestIteration
    \/ BestLoopEnd
    \/ CallWorstAnalysis
    \/ WorstBegin
    \/ WorstIteration
    \/ WorstLoopEnd

SpecDirect == Init /\ [][NextDirect]_vars

\* A caller invokes full_search_of_R_C_L_component_values() (line 451)
\* again after it has returned, with the dictionaries as it left them.
CallFullSearchAgain ==
    /\ pc = "report_best"
    /\ calls < MaxCalls
    /\ pc' = "full_search"
    /\ UNCHANGED << error, dic_in_fix_param, dic_resistors, dic_capacitors,
                    dic_inductors, dic_target_calc_values, g_best_prev_error,
                    g_worst_prev_error, list_components_ids,
                    list_components_list_values, max_number_evaluations,
                    five_perc, resp, index, iter_combinations, calls >>

NextTwice ==
    \/ ConsistencyTesting
    \/ ExpandResistors
    \/ ExpandCapacitors
    \/ ExpandInductors
    \/ SearchBegin
    \/ Prompt
    \/ BestIteration
    \/ BestLoopEnd
    \/ CallFullSearchAgain

SpecTwice == Init /\ [][NextTwice]_vars

----------------------------------------------------------------------------
(* Vocabulary of the properties: the enumeration described without the     *)
(* iterator, and the two distances described without the algorithms.       *)

\* The identifiers in the order the passes use: resistors by name, then
\* capacitors, then inductors.
OrderedIds == << R1, R2, R3, C1, C2, L1 >>

\* The entry of component id, in whichever dictionary holds it.
Entry(id) ==
    LET all == dic_resistors \o dic_capacitors \o dic_inductors
    IN  all[CHOOSE i \in 1..Len(all) : all[i].name = id]

\* The candidate lists of a pass, by position in OrderedIds.
PoolsOf(field) == [ i \in 1..Len(OrderedIds) |-> Entry(OrderedIds[i])[field][1] ]

RECURSIVE SizeFrom(_, _)
\* The number of tuples over the pools from position i on.
SizeFrom(pools, i) ==
    IF i > Len(pools) THEN 1 ELSE Len(pools[i]) * SizeFrom(pools, i + 1)

\* The k-th tuple (k = 0, 1, ...) of the cartesian product in lexicographic
\* order, first pool slowest: the digits of k in the mixed radix of the
\* pool sizes.
TupleAt(pools, k) ==
    [ i \in 1..Len(pools) |->
        pools[i][((k \div SizeFrom(pools, i + 1)) % Len(pools[i])) + 1] ]

\* The target values.
TargetLow == dic_target_calc_values[1].target_value[1]
TargetHigh == dic_target_calc_values[2].target_value[1]

\* What the circuit gives for a tuple: resistors are its first three values.
Obtained(tuple) ==
    CircuitEquations(get_dic_in_fix_param(dic_in_fix_param, "VCC", "value").val,
                     tuple[1], tuple[2], tuple[3])

\* r is the fixed-point square root of a: the largest r with (r/FP)^2 <= a/FP.
IsRoot(r, a) == r >= 0 /\ r * r <= a * FP /\ (r + 1) * (r + 1) > a * FP

\* e is the Euclidean distance sqrt(sum_i (target_i - obtained_i)^2).
IsEuclidean(e, tuple) ==
    LET o == Obtained(tuple)
        dl == TargetLow - o.low
        dh == TargetHigh - o.high
    IN  IsRoot(e, (dl * dl) \div FP + (dh * dh) \div FP)

\* The Manhattan distance sum_i |target_i - obtained_i|.
Manhattan(tuple) ==
    LET o == Obtained(tuple)
        dl == TargetLow - o.low
        dh == TargetHigh - o.high
    IN  (IF dl < 0 THEN -dl ELSE dl) + (IF dh < 0 THEN -dh ELSE dh)

\* The Euclidean distance of a tuple, by the program's own arithmetic.
Euclidean(tuple) ==
    LET o == Obtained(tuple)
    IN  DistanceErrorBest(TargetLow, TargetHigh, o.low, o.high)

\* The best pass has run to completion.
BestPassCompleted == pc = "report_best"

\* The worst pass has run to completion.
WorstPassCompleted == pc = "report_worst"

----------------------------------------------------------------------------
(* C1 *)

\* C1: after the best pass has run to completion over a non-empty
\* enumeration, g_best_prev_error is the minimum of the Euclidean distance
\* over all enumerated combinations: some combination has exactly that
\* error and none has a smaller one.
C1_BestErrorIsMinimum ==
    (BestPassCompleted /\ max_number_evaluations > 0) =>
        LET pools == PoolsOf("expanded_values")
            n == SizeFrom(pools, 1)
        IN  /\ \E k \in 0..(n - 1) : IsEuclidean(g_best_prev_error, TupleAt(pools, k))
            /\ \A k \in 0..(n - 1) : Euclidean(TupleAt(pools, k)) >= g_best_prev_error

\* The half of C1 the code keeps: no enumerated combination has an error
\* strictly smaller than g_best_prev_error.
C1_NoSmallerError ==
    (BestPassCompleted /\ max_number_evaluations > 0) =>
        LET pools == PoolsOf("expanded_values")
        IN  \A k \in 0..(SizeFrom(pools, 1) - 1) :
                Euclidean(TupleAt(pools, k)) >= g_best_prev_error

----------------------------------------------------------------------------
(* C2 *)

\* C2: after the worst pass has run to completion, g_worst_prev_error is the
\* maximum of the Manhattan distance over all combinations of the
\* three-point tolerance bands of every component.
C2_WorstErrorIsMaximum ==
    WorstPassCompleted =>
        LET pools == PoolsOf("expanded_tolerance")
            n == SizeFrom(pools, 1)
        IN  /\ \A i \in 1..Len(pools) : Len(pools[i]) = 3
            /\ \E k \in 0..(n - 1) : Manhattan(TupleAt(pools, k)) = g_worst_prev_error
            /\ \A k \in 0..(n - 1) : Manhattan(TupleAt(pools, k)) <= g_worst_prev_error

\* A completed worst pass whose maximum is positive and is not reached by
\* every combination of the bands.
C2_Witness ==
    /\ WorstPassCompleted
    /\ g_worst_prev_error > 0
    /\ LET pools == PoolsOf("expanded_tolerance")
       IN  \E k \in 0..(SizeFrom(pools, 1) - 1) :
               Manhattan(TupleAt(pools, k)) < g_worst_prev_error

----------------------------------------------------------------------------
(* C3 *)

\* No combination has been drawn or evaluated, and nothing of the best pass
\* has been written.
NothingEvaluated ==
    /\ index = 0
    /\ iter_combinations = None
    /\ g_best_prev_error = g_best_prev_error_init
    /\ \A i \in 1..Len(OrderedIds) :
           /\ Entry(OrderedIds[i]).curr_value = None
           /\ Entry(OrderedIds[i]).best_value = None
    /\ \A i \in 1..Len(dic_target_calc_values) :
           /\ dic_target_calc_values[i].calc_value = None
           /\ dic_target_calc_values[i].best_value = None

\* The best pass has left its preparation (lines 453-469) behind.
SearchPrepared ==
    pc \in { "prompt", "exit", "best_loop", "report_best", "worst_analysis",
             "worst_loop", "report_worst", "done" }

\* C3: with more than 25,000,000 combinations the best pass asks before it
\* draws any combination: while it asks nothing is evaluated, after n or N
\* the program has ended with nothing evaluated and the best values at
\* their initial values, and the loop is entered only after y or Y; with at
\* most 25,000,000 combinations it never asks.
C3_SafetyGate ==
    /\ pc = "prompt" =>
           /\ max_number_evaluations > 25000000
           /\ resp \notin { Some("y"), Some("Y"), Some("n"), Some("N") }
           /\ NothingEvaluated
    /\ (SearchPrepared /\ resp \in { Some("n"), Some("N") }) =>
           pc = "exit" /\ NothingEvaluated
    /\ pc = "exit" => resp \in { Some("n"), Some("N") }
    /\ (SearchPrepared /\ pc \notin { "prompt", "exit" }
          /\ max_number_evaluations > 25000000) =>
           resp \in { Some("y"), Some("Y") }
    /\ (SearchPrepared /\ max_number_evaluations <= 25000000) =>
           resp = None /\ pc \notin { "prompt", "exit" }

\* More than 25,000,000 combinations, a confirmation, and combinations
\* evaluated after it.
C3_Witness ==
    /\ pc = "best_loop"
    /\ max_number_evaluations > 25000000
    /\ resp = Some("Y")
    /\ index > 0
    /\ g_best_prev_error < g_best_prev_error_init

\* More than 25,000,000 combinations and a decline.
C3_WitnessDecline == pc = "exit" /\ resp = Some("n") /\ NothingEvaluated

----------------------------------------------------------------------------
(* C4 *)

\* The component values of one kind (current, best, worst), by position in
\* OrderedIds, and the target values of that kind.
CurrTuple == [ i \in 1..Len(OrderedIds) |-> Entry(OrderedIds[i]).curr_value[1] ]

BestSnapshot ==
    << [ i \in 1..Len(OrderedIds) |-> Entry(OrderedIds[i]).best_value ],
       [ i \in 1..Len(dic_target_calc_values) |-> dic_target_calc_values[i].best_value ] >>

WorstSnapshot ==
    << [ i \in 1..Len(OrderedIds) |-> Entry(OrderedIds[i]).worst_value ],
       [ i \in 1..Len(dic_target_calc_values) |-> dic_target_calc_values[i].worst_value ] >>

\* The snapshot that holds exactly the tuple and what the circuit gives for it.
SnapshotOf(tuple) ==
    << [ i \in 1..Len(OrderedIds) |-> Some(tuple[i]) ],
       << Some(Obtained(tuple).low), Some(Obtained(tuple).high) >> >>

\* The snapshot that holds nothing.
EmptySnapshot ==
    << [ i \in 1..Len(OrderedIds) |-> None ],
       [ i \in 1..Len(dic_target_calc_values) |-> None ] >>

\* The first position, in enumeration order, whose error is the least.
FirstMinimum(errs, n) ==
    CHOOSE k \in 0..(n - 1) :
        /\ \A j \in 0..(n - 1) : errs[j] >= errs[k]
        /\ \A j \in 0..(k - 1) : errs[j] > errs[k]

\* The first position, in enumeration order, whose error is the greatest.
FirstMaximum(errs, n) ==
    CHOOSE k \in 0..(n - 1) :
        /\ \A j \in 0..(n - 1) : errs[j] <= errs[k]
        /\ \A j \in 0..(k - 1) : errs[j] < errs[k]

\* Whenever a completed pass has kept a combination, it is the first one in
\* enumeration order among those with the extreme error.
C4_FirstExtremeKept ==
    /\ (BestPassCompleted /\ BestSnapshot # EmptySnapshot) =>
           LET pools == PoolsOf("expanded_values")
               n == SizeFrom(pools, 1)
           IN  \E errs \in { [ k \in 0..(n - 1) |-> Euclidean(TupleAt(pools, k)) ] } :
                   BestSnapshot = SnapshotOf(TupleAt(pools, FirstMinimum(errs, n)))
    /\ (WorstPassCompleted /\ WorstSnapshot # EmptySnapshot) =>
           LET pools == PoolsOf("expanded_tolerance")
               n == SizeFrom(pools, 1)
           IN  \E errs \in { [ k \in 0..(n - 1) |-> Manhattan(TupleAt(pools, k)) ] } :
                   WorstSnapshot = SnapshotOf(TupleAt(pools, FirstMaximum(errs, n)))

\* A turn of a loop whose combination has an error equal to the running
\* extreme leaves the snapshot as it was.
C4_EqualErrorKeepsSnapshot ==
    /\ (pc = "best_loop" /\ pc' = "best_loop" /\ index' = index + 1
          /\ Euclidean(CurrTuple') = g_best_prev_error) =>
           BestSnapshot' = BestSnapshot /\ g_best_prev_error' = g_best_prev_error
    /\ (pc = "worst_loop" /\ pc' = "worst_loop" /\ iter_combinations # None
          /\ Manhattan(CurrTuple') = g_worst_prev_error) =>
           WorstSnapshot' = WorstSnapshot /\ g_worst_prev_error' = g_worst_prev_error

----------------------------------------------------------------------------
(* C5 *)

\* The first combination of the best pass has just been evaluated.
FirstCombinationEvaluated == pc = "best_loop" /\ index = 1

\* C5: the running least error starts above every error a combination can
\* have, so the first combination evaluated by the best pass always becomes
\* the running best: after it the least error is its error and the best
\* snapshots hold it.
C5_FirstCombinationQualifies ==
    FirstCombinationEvaluated =>
        LET first == TupleAt(PoolsOf("expanded_values"), 0)
        IN  /\ g_best_prev_error = Euclidean(first)
            /\ BestSnapshot = SnapshotOf(first)

\* What the code gives instead: the first combination becomes the running
\* best exactly when its error is below the starting value of line 341.
C5_FirstQualifiesBelowStart ==
    FirstCombinationEvaluated =>
        LET first == TupleAt(PoolsOf("expanded_values"), 0)
        IN  IF Euclidean(first) < g_best_prev_error_init
            THEN g_best_prev_error = Euclidean(first) /\ BestSnapshot = SnapshotOf(first)
            ELSE g_best_prev_error = g_best_prev_error_init /\ BestSnapshot = EmptySnapshot

\* The first combination was evaluated, its error was not below the starting
\* value, and nothing was recorded.
C5_FirstRejected ==
    /\ FirstCombinationEvaluated
    /\ Euclidean(TupleAt(PoolsOf("expanded_values"), 0)) >= g_best_prev_error_init
    /\ BestSnapshot = EmptySnapshot

----------------------------------------------------------------------------
(* C6 *)

\* C6: the running extrema move one way only: no step of the program, and
\* so no step of the best pass, raises best_error; no step, and so no step
\* of the worst pass, lowers worst_error; and worst_error is never below 0.
C6_MonotonicExtrema ==
    /\ [](g_worst_prev_error >= 0)
    /\ [][/\ g_best_prev_error' <= g_best_prev_error
          /\ g_worst_prev_error' >= g_worst_prev_error]_vars

\* Both extrema have moved: the best pass has lowered best_error and the
\* worst pass has raised worst_error.
C6_Witness ==
    /\ pc = "worst_loop"
    /\ g_best_prev_error < g_best_prev_error_init
    /\ g_worst_prev_error > g_worst_prev_error_init

----------------------------------------------------------------------------
(* C7 *)

\* The standard series of a component: E24 for resistors, E12 for capacitors.
SeriesOf(id) ==
    IF startswith(id, 82) THEN E24_resistor_values ELSE E12_capacitor_values

\* The expanded list of the component is what the priority value > set >
\* scale list gives.
ExpandedByPriority(c) ==
    LET ev == c.expanded_values[1]
    IN  IF c.value # None THEN ev = << c.value[1] >>
        ELSE IF c.value_set # None THEN ev = c.value_set[1]
        ELSE LET scales == c.value_scale[1]
                 std == SeriesOf(c.name)
                 m == Len(scales)
                 n == Len(std)
             IN  /\ Len(ev) = m * n
                 /\ \A i \in 1..m : \A j \in 1..n :
                        ev[(i - 1) * n + j] = FMul(std[j], scales[i])

\* The components that the program has gone through expand_component for.
Expanded ==
    (IF pc \in {"main", "returned", "expand_resistors"} \/ error # None THEN {}
     ELSE {R1, R2, R3})
    \cup (IF pc \in {"main", "returned", "expand_resistors", "expand_capacitors"}
             \/ error # None
          THEN {} ELSE {C1, C2})
    \cup (IF pc \in {"main", "returned", "expand_resistors", "expand_capacitors",
                    "expand_inductors"} \/ error # None
          THEN {} ELSE {L1})

\* C7: expand_component resolves each component with the priority fixed
\* value > explicit set > scale list: with a value the expanded list is
\* [value] also when a set or a scale list is present; else with a set it is
\* the set in the given order; else it is, scale by scale and within a scale
\* unit by unit of the standard series, unit * scale, m * n values in all.
C7_ExpansionPriority ==
    /\ \A id \in Expanded : Entry(id).expanded_values # None
    /\ \A i \in 1..Len(OrderedIds) :
           Entry(OrderedIds[i]).expanded_values # None =>
               ExpandedByPriority(Entry(OrderedIds[i]))

\* One state shows the three paths: a component with value, set and scale
\* list expanded to its value alone, one with a set expanded to the set, and
\* one with two scale factors expanded scale-major to 2 * 24 values.
C7_Witness ==
    /\ \E i \in 1..Len(OrderedIds) :
           LET c == Entry(OrderedIds[i])
           IN  /\ c.value # None /\ c.value_set # None /\ c.value_scale # None
               /\ c.expanded_values = Some(<< c.value[1] >>)
    /\ \E i \in 1..Len(OrderedIds) :
           LET c == Entry(OrderedIds[i])
           IN  /\ c.value = None /\ c.value_set = None
               /\ c.expanded_values # None
               /\ Len(c.value_scale[1]) = 2
               /\ Len(c.expanded_values[1]) = 2 * Len(SeriesOf(c.name))
               /\ c.expanded_values[1][Len(SeriesOf(c.name)) + 1]
                      = FMul(SeriesOf(c.name)[1], c.value_scale[1][2])
               /\ c.expanded_values[1][2] = FMul(SeriesOf(c.name)[2], c.value_scale[1][1])

----------------------------------------------------------------------------
(* C8 *)

\* The lengths of the expanded lists, by position in OrderedIds.
ExpandedLengths ==
    [ i \in 1..Len(OrderedIds) |-> Len(Entry(OrderedIds[i]).expanded_values[1]) ]

\* The count has been computed and the expanded lists are all there.
CountComputed == pc \in {"prompt", "exit", "best_loop", "report_best"}

\* The values the evaluator has left in the target dictionary.
CalcValues ==
    [ i \in 1..Len(dic_target_calc_values) |-> dic_target_calc_values[i].calc_value ]

\* The combination that is current is tuple k of the cartesian product and
\* has been evaluated.
EvaluatedIs(k) ==
    \E pools \in { PoolsOf("expanded_values") } :
        \E tuple \in { TupleAt(pools, k) } :
            \E o \in { Obtained(tuple) } :
                CurrTuple = tuple /\ CalcValues = << Some(o.low), Some(o.high) >>

\* The combination evaluated last is the tuple that index has just counted.
EvaluatedLast == EvaluatedIs(index - 1)

\* The count is the product of the lengths; after index evaluations the
\* current combination is tuple index - 1; a completed pass has made as many
\* evaluations as the count says.
C8_CountAndPosition ==
    /\ CountComputed =>
           \E pools \in { PoolsOf("expanded_values") } :
               max_number_evaluations = SizeFrom(pools, 1)
    /\ (CountComputed /\ ExpandedLengths = << 96, 96, 96, 1, 2, 1 >>) =>
           max_number_evaluations = 1769472
    /\ (pc \in {"best_loop", "report_best"} /\ index >= 1) => EvaluatedLast
    /\ pc \in {"best_loop", "report_best"} => index <= max_number_evaluations
    /\ BestPassCompleted => index = max_number_evaluations

\* A step of the best pass evaluates the next tuple, or raises, or ends the
\* pass after the last tuple.
C8_OneTupleAStep ==
    pc = "best_loop" =>
        \/ pc' = "best_loop" /\ index' = index + 1 /\ EvaluatedLast'
        \/ pc' = "error"
        \/ pc' = "report_best" /\ index' = index /\ index = max_number_evaluations

\* C8: the combination count computed before the enumeration is the product
\* of the lengths of the expanded lists (lengths 96,96,96,1,2,1 give
\* 1,769,472), and a best pass that runs to completion evaluates exactly that
\* many combinations, the tuples of the cartesian product one after the
\* other, each exactly once.
C8_CountAndEnumeration == [](C8_CountAndPosition) /\ [][C8_OneTupleAStep]_vars

\* A completed best pass over several hundred combinations, the last tuple
\* being the current one.
C8_Witness ==
    /\ BestPassCompleted
    /\ max_number_evaluations > 500
    /\ index = max_number_evaluations
    /\ EvaluatedIs(max_number_evaluations - 1)

----------------------------------------------------------------------------
(* C9 *)

\* The band is [nominal * (1 - p/100), nominal, nominal * (1 + p/100)].
IsBand(band, nominal, p) ==
    /\ Len(band) = 3
    /\ band[1] * (FP * 100) = nominal * (FP * 100 - p)
    /\ band[2] = nominal
    /\ band[3] * (FP * 100) = nominal * (FP * 100 + p)

\* C9: tolerance expansion of a nominal value with tolerance percent p gives
\* the three values nominal * (1 - p/100), nominal, nominal * (1 + p/100) in
\* this order, [990, 1000, 1010] for nominal 1000 and p = 1; and in the worst
\* pass the band of every component is built from the best value and the
\* tolerance of that same component.
C9_ToleranceBands ==
    /\ pc \in {"worst_loop", "report_worst", "done"} =>
           \A i \in 1..Len(OrderedIds) :
               Entry(OrderedIds[i]).expanded_tolerance # None
    /\ \A i \in 1..Len(OrderedIds) :
           LET c == Entry(OrderedIds[i])
           IN  c.expanded_tolerance # None =>
                   /\ c.best_value # None
                   /\ IsBand(c.expanded_tolerance[1], c.best_value[1], c.tolerance)
                   /\ (c.best_value[1] = F(1000) /\ c.tolerance = F(1)) =>
                          c.expanded_tolerance[1] = << F(990), F(1000), F(1010) >>

\* The worst pass runs over bands of components with different tolerances,
\* among them the band [990, 1000, 1010] of a best value 1000 at 1 percent.
C9_Witness ==
    /\ pc = "worst_loop"
    /\ Entry(C1).best_value = Some(F(1000))
    /\ Entry(C1).tolerance = F(1)
    /\ Entry(C1).expanded_tolerance = Some(<< F(990), F(1000), F(1010) >>)
    /\ Entry(R2).tolerance = F(10)
    /\ Entry(R2).best_value # None
    /\ Entry(R2).expanded_tolerance # None
    /\ Entry(R2).expanded_tolerance[1][3] - Entry(R2).best_value[1]
           = Entry(R2).best_value[1] \div 10

----------------------------------------------------------------------------
(* C10 *)

\* Some component has no best value.
NullBest == \E i \in 1..Len(OrderedIds) : Entry(OrderedIds[i]).best_value = None

\* What an evaluation of a combination writes: the current values of the
\* components and the calculated values of the targets.
CurrSnapshot ==
    << [ i \in 1..Len(OrderedIds) |-> Entry(OrderedIds[i]).curr_value ], CalcValues >>

\* The worst pass, entered with a null best value, ends in an error with
\* nothing evaluated and nothing of the worst results touched.
C10_FailsBeforeEvaluation ==
    (pc = "worst_analysis" /\ NullBest) =>
        /\ pc' = "error"
        /\ error' = Some("TypeError")
        /\ g_worst_prev_error' = g_worst_prev_error
        /\ WorstSnapshot' = WorstSnapshot
        /\ CurrSnapshot' = CurrSnapshot
        /\ iter_combinations' = iter_combinations

\* C10: when the worst pass is asked to expand the tolerance of a component
\* whose best value is still null, it fails with an error before any
\* combination of the tolerance bands is evaluated, and worst_error and the
\* worst snapshots are left as they were; the loop over the bands is never
\* running with a null best value.
C10_NullBestFails ==
    /\ [](pc \in {"worst_loop", "report_worst"} => ~NullBest)
    /\ [][C10_FailsBeforeEvaluation]_vars

\* A best pass ran to completion and recorded nothing, the worst pass was
\* called and failed: no band was built and the worst results are untouched.
C10_Witness ==
    /\ pc = "error"
    /\ error = Some("TypeError")
    /\ max_number_evaluations > 0
    /\ index = max_number_evaluations
    /\ NullBest
    /\ g_worst_prev_error = g_worst_prev_error_init
    /\ WorstSnapshot = EmptySnapshot
    /\ \A i \in 1..Len(OrderedIds) : Entry(OrderedIds[i]).expanded_tolerance = None

----------------------------------------------------------------------------
(* C11 *)

\* The component has no value, no set and no scale list.
NoSource(c) == c.value = None /\ c.value_set = None /\ c.value_scale = None

\* The component is an inductor that has only a scale list, of at least one
\* factor: there is no standard series to combine it with.
ScaleWithoutSeries(c) ==
    /\ startswith(c.name, 76)
    /\ c.value = None /\ c.value_set = None
    /\ c.value_scale # None
    /\ Len(c.value_scale[1]) > 0

\* VCC, or the target value of one of the two thresholds, is absent.
MissingField ==
    \/ get_dic_in_fix_param(dic_in_fix_param, "VCC", "value").err # None
    \/ get_dic_target_calc_values(dic_target_calc_values, V_low_threshold,
                                  "target_value").err # None
    \/ get_dic_target_calc_values(dic_target_calc_values, V_high_threshold,
                                  "target_value").err # None

\* The configuration the run was started with is in error.  (None of the
\* fields it reads is ever written.)
ConfigurationError ==
    \/ \E i \in 1..Len(OrderedIds) :
           NoSource(Entry(OrderedIds[i])) \/ ScaleWithoutSeries(Entry(OrderedIds[i]))
    \/ MissingField

----------------------------------------------------------------------------
(* C12 *)

\* A turn of one of the two loops.
LoopTurn ==
    /\ pc \in {"best_loop", "worst_loop"}
    /\ iter_combinations # None
    /\ iter_combinations' # iter_combinations

\* The circuit equations raise on the combination that is current.
EvaluatorRaises ==
    /\ \A i \in 1..Len(OrderedIds) : Entry(OrderedIds[i]).curr_value # None
    /\ Obtained(CurrTuple).err # None

\* A turn whose combination makes the evaluator raise ends the pass in that
\* error and scores nothing.
C12_FailingTurn ==
    (LoopTurn /\ EvaluatorRaises') =>
        /\ pc' = "error"
        /\ error' = Obtained(CurrTuple').err
        /\ g_best_prev_error' = g_best_prev_error
        /\ g_worst_prev_error' = g_worst_prev_error
        /\ BestSnapshot' = BestSnapshot
        /\ WorstSnapshot' = WorstSnapshot
        /\ CalcValues' = CalcValues

\* After an error nothing happens any more.
C12_NothingAfterError == pc = "error" => UNCHANGED vars

\* C12: when the circuit evaluator raises on a combination during a pass
\* (a division by zero), the error is not suppressed: the pass ends at that
\* combination, no later combination is evaluated, and the failing
\* combination is not scored: best_error, worst_error and the best and
\* worst snapshots are what they were after the last combination that was
\* evaluated successfully.
C12_EvaluatorErrorFailsPass == [][C12_FailingTurn /\ C12_NothingAfterError]_vars

\* The best pass has failed on its fifth combination with a division by
\* zero, the best of the four before it still recorded, tuples left over.
C12_Witness ==
    /\ pc = "error"
    /\ error = Some("ZeroDivisionError")
    /\ index = 5
    /\ index < max_number_evaluations
    /\ EvaluatorRaises
    /\ BestSnapshot # EmptySnapshot
    /\ g_best_prev_error < g_best_prev_error_init
    /\ \E k \in 0..3 : BestSnapshot = SnapshotOf(TupleAt(PoolsOf("expanded_values"), k))

\* The worst pass has failed with a division by zero after it had scored
\* combinations.
C12_WitnessWorst ==
    /\ pc = "error"
    /\ error = Some("ZeroDivisionError")
    /\ Entry(R1).expanded_tolerance # None
    /\ EvaluatorRaises
    /\ WorstSnapshot # EmptySnapshot
    /\ g_worst_prev_error > g_worst_prev_error_init

----------------------------------------------------------------------------
(* C13 *)

\* A search has returned and another one is about to be called or running.
SearchRepeated ==
    \/ pc = "report_best" /\ calls >= 1
    \/ pc \in {"full_search", "prompt", "best_loop"} /\ calls >= 2

\* C13: idempotence of the best pass: once the search has run to its end,
\* running it again on the same configuration changes nothing of its
\* results at any step, so that after the second run best_error, the best
\* value of every target and the best value of every component are what
\* they were after the first.
C13_Idempotence ==
    [][SearchRepeated =>
           /\ g_best_prev_error' = g_best_prev_error
           /\ BestSnapshot' = BestSnapshot]_vars

\* The second search has run to its end over several combinations, two of
\* them of least error, with a best combination recorded.
C13_Witness ==
    /\ pc = "report_best"
    /\ calls = 2
    /\ index = max_number_evaluations
    /\ max_number_evaluations > 1
    /\ BestSnapshot # EmptySnapshot
    /\ \E pools \in { PoolsOf("expanded_values") } :
           \E k1, k2 \in 0..(max_number_evaluations - 1) :
               /\ k1 # k2
               /\ Euclidean(TupleAt(pools, k1)) = g_best_prev_error
               /\ Euclidean(TupleAt(pools, k2)) = g_best_prev_error

----------------------------------------------------------------------------
(* C14 *)

\* What the best pass has produced and what it was produced from: the
\* least error, the best values, the expanded lists, and the configuration.
BestResults ==
    << g_best_prev_error,
       BestSnapshot,
       [ i \in 1..Len(OrderedIds) |-> Entry(OrderedIds[i]).expanded_values ],
       [ i \in 1..Len(OrderedIds) |->
           LET c == Entry(OrderedIds[i])
           IN  << c.name, c.value, c.value_set, c.value_scale, c.tolerance >> ],
       [ i \in 1..Len(dic_target_calc_values) |->
           << dic_target_calc_values[i].name, dic_target_calc_values[i].target_value >> ],
       dic_in_fix_param >>

\* The worst pass is about to run, is running or has run.
InWorstPhase == pc \in {"worst_analysis", "worst_loop", "report_worst", "done"}

\* C14: the worst pass runs only after the best pass has run to its end,
\* and from the end of the best pass on, during and after the worst pass,
\* best_error, the best value of every component and of every target and
\* every expanded list stay what they were when the best pass finished;
\* what the worst pass changes is among the current values, the tolerance
\* bands, worst_error and the worst snapshots.
C14_WorstPassKeepsBest ==
    /\ [](InWorstPhase =>
              /\ calls = 1
              /\ index = max_number_evaluations
              /\ BestSnapshot # EmptySnapshot)
    /\ [][(BestPassCompleted \/ InWorstPhase) => BestResults' = BestResults]_vars

\* The worst pass has run to its end and recorded a worst combination that
\* is not the best one, which is still recorded.
C14_Witness ==
    /\ WorstPassCompleted
    /\ g_worst_prev_error > g_worst_prev_error_init
    /\ BestSnapshot # EmptySnapshot
    /\ WorstSnapshot # EmptySnapshot
    /\ WorstSnapshot # BestSnapshot
    /\ g_best_prev_error < g_worst_prev_error

----------------------------------------------------------------------------
(* C15 *)

\* The best values of the components, by position in OrderedIds.
BestTuple == [ i \in 1..Len(OrderedIds) |-> Entry(OrderedIds[i]).best_value[1] ]

\* At least one combination of the best pass has been processed to the end
\* of the loop body.
CombinationProcessed == pc \in {"best_loop", "report_best"} /\ index >= 1

\* The best values of the components, the best values of the targets and
\* best_error belong together, and the best values are candidates.
BestIsOneCombination ==
    /\ \A i \in 1..Len(OrderedIds) :
           /\ Entry(OrderedIds[i]).best_value # None
           /\ \E j \in 1..Len(Entry(OrderedIds[i]).expanded_values[1]) :
                  Entry(OrderedIds[i]).expanded_values[1][j]
                      = Entry(OrderedIds[i]).best_value[1]
    /\ BestSnapshot = SnapshotOf(BestTuple)
    /\ g_best_prev_error = Euclidean(BestTuple)

\* C15: snapshot consistency in the best pass: after every fully processed
\* combination the best values of the components, the best values of the
\* targets and best_error come from one and the same combination: the
\* circuit evaluated on the components' best values gives the targets' best
\* values, whose Euclidean distance to the targets is best_error, and every
\* component's best value is a member of its expanded list.
C15_SnapshotConsistency == CombinationProcessed => BestIsOneCombination

\* What the code gives: the three belong together once a combination has
\* been recorded; until then best_error is the starting value of line 341
\* and no best value is set.
C15_ConsistentOnceRecorded ==
    CombinationProcessed =>
        IF BestSnapshot = EmptySnapshot
        THEN g_best_prev_error = g_best_prev_error_init
        ELSE BestIsOneCombination

\* Combinations have been processed and none has been recorded.
C15_NothingRecorded ==
    /\ CombinationProcessed
    /\ index >= 2
    /\ BestSnapshot = EmptySnapshot
    /\ g_best_prev_error = g_best_prev_error_init

----------------------------------------------------------------------------
(* C16 *)

\* The worst values are all there, those of the components out of their
\* tolerance bands.
WorstAvailable ==
    /\ \A i \in 1..Len(OrderedIds) :
           LET c == Entry(OrderedIds[i])
           IN  /\ c.worst_value # None
               /\ c.expanded_tolerance # None
               /\ Len(c.expanded_tolerance[1]) = 3
               /\ \E j \in 1..3 : c.expanded_tolerance[1][j] = c.worst_value[1]
    /\ \A i \in 1..Len(dic_target_calc_values) :
           dic_target_calc_values[i].worst_value # None

\* C16: after the worst pass has run to its end on components that all
\* have a best value, every component has a worst value, which is one of
\* the three points of its tolerance band, and every target has a worst
\* value, so that the report of the worst case has its values.
C16_WorstValuesAvailable == (WorstPassCompleted /\ ~NullBest) => WorstAvailable

\* What the code gives: the worst values are there when some combination
\* of the bands has an error above the starting value 0.0 of line 344;
\* when every combination meets the targets exactly, none is set.
C16_AvailableAboveStart ==
    (WorstPassCompleted /\ ~NullBest) =>
        IF g_worst_prev_error > g_worst_prev_error_init
        THEN WorstAvailable
        ELSE WorstSnapshot = EmptySnapshot

\* The worst pass has run to its end over the bands of components that all
\* have a best value, and no worst value is set.
C16_NothingRecorded ==
    /\ WorstPassCompleted
    /\ ~NullBest
    /\ \A i \in 1..Len(OrderedIds) : Entry(OrderedIds[i]).expanded_tolerance # None
    /\ g_worst_prev_error = g_worst_prev_error_init
    /\ WorstSnapshot = EmptySnapshot

----------------------------------------------------------------------------
(* C17 *)

\* The next turn of the best pass looks at the progress marks.
MilestoneReached == pc = "best_loop" /\ iter_combinations # None /\ index > progress_index

\* Where the progress marks are looked at, the step is positive.
C17_StepPositive ==
    /\ pc \in {"prompt", "exit", "best_loop", "report_best"} =>
           five_perc = max_number_evaluations \div 20
    /\ MilestoneReached => five_perc > 0

\* A turn of the best pass ends in an error only when the evaluator raises
\* on its combination, and otherwise evaluates the next tuple.
C17_TurnFailsOnEvaluatorOnly ==
    (pc = "best_loop" /\ iter_combinations # None
       /\ iter_combinations' # iter_combinations) =>
        IF pc' = "error" THEN EvaluatorRaises'
        ELSE pc' = "best_loop" /\ index' = index + 1 /\ EvaluatedLast'

\* C17: progress reporting never aborts the best pass: whenever the marks
\* are looked at (index > 1001) the step five_perc = int(count / 20) is
\* positive, whatever the count, so that none of index % five_perc,
\* index % (five_perc * 5), index % (five_perc * 10) divides by zero; and
\* the combinations that are evaluated do not depend on the progress logic:
\* every turn evaluates the next tuple unless the evaluator raises.
C17_ProgressNeverAborts ==
    [](C17_StepPositive) /\ [][C17_TurnFailsOnEvaluatorOnly]_vars

\* A pass of 1008 combinations has run to its end through the progress
\* marks with the step 50.
C17_Witness ==
    /\ BestPassCompleted
    /\ max_number_evaluations = 1008
    /\ five_perc = 50
    /\ index = max_number_evaluations
    /\ index > 1001
    /\ EvaluatedLast

====
